---- MODULE Spec2Model ----
(***************************************************************************)
(* A model of app.py, the Kannada Wiktionary generator: the morphology     *)
(* classifier (get_template_logic), the exemplar matcher                   *)
(* (get_few_shot_examples), the JSON knowledge store (load_ground_truth,   *)
(* save_to_ground_truth) and the Streamlit script that sequences them.     *)
(*                                                                         *)
(* Text is modelled as a sequence of tokens.  A token is either one        *)
(* Kannada code point (named in ASCII: "u_sign" is U+0CC1) or one literal  *)
(* fragment of the program's format strings ("Noun: ", "{{", "|", ...).    *)
(* Concatenation of strings is \o, so two token sequences are equal        *)
(* exactly when the two Python strings are.                                *)
(***************************************************************************)
EXTENDS Naturals, Sequences, FiniteSets, TLC

VARIABLES
    file,            \* the backing resource JSON_FILE
    word,            \* the word text input (the function argument in the pure specifications)
    pos_categories,  \* the part-of-speech multiselect (likewise)
    model_choice,    \* the sidebar radio
    session,         \* st.session_state: last_word, current_result, sandbox_results
    edited_entry,    \* the value of the "Final Wikitext:" text area, <<>> when not rendered
    req,             \* what the last run of the script did
    call,            \* the last call of a function checked on its own
    hist             \* history: which word each cached text and the last save came from

vars == <<file, word, pos_categories, model_choice, session, edited_entry, req, call, hist>>

----------------------------------------------------------------------------
(* Bounds of the model *)

MaxStem == 1
MaxPos == 2
MaxStore == 2
MaxCount == 2
MaxChunks == 1

----------------------------------------------------------------------------
(* Kannada code points the program names *)

U_SIGN == "u_sign"
I_SIGN == "i_sign"
E_SIGN == "e_sign"
AI_SIGN == "ai_sign"
KA == "ka"
O_SIGN == "o_sign"
LLA == "lla"
VIRAMA == "virama"
SA == "sa"
YA == "ya"
DA == "da"

KOLLU == <<KA, O_SIGN, LLA, VIRAMA, LLA, U_SIGN>>
ISU == <<I_SIGN, SA, U_SIGN>>
FrontVowelSigns == {<<I_SIGN>>, <<E_SIGN>>, <<AI_SIGN>>}

POS == {"Noun", "Verb", "Adjective", "Adverb", "Postposition"}

----------------------------------------------------------------------------
(* Python's str and list operations on token sequences *)

endswith(s, suf) ==
    /\ Len(s) >= Len(suf)
    /\ SubSeq(s, Len(s) - Len(suf) + 1, Len(s)) = suf

removesuffix(s, suf) ==
    IF suf /= <<>> /\ endswith(s, suf) THEN SubSeq(s, 1, Len(s) - Len(suf)) ELSE s

\* word[-1] if word else ""
last_char_of(w) == IF w /= <<>> THEN <<w[Len(w)]>> ELSE <<>>

RECURSIVE join(_, _)
join(sep, parts) ==
    IF parts = <<>> THEN <<>>
    ELSE IF Len(parts) = 1 THEN parts[1]
    ELSE parts[1] \o sep \o join(sep, Tail(parts))

\* a returned value, or the exception raised instead of one
Return(v) == [err |-> "", val |-> v]
Raise(e) == [err |-> e, val |-> <<>>]

----------------------------------------------------------------------------
(* get_template_logic *)

IRREGULAR_CHECK == <<"IRREGULAR_CHECK">>
NO_TEMPLATES == <<"No specific morphology templates required.">>

noun_instruction(w) ==
    LET last_char == last_char_of(w) IN
    IF last_char = <<U_SIGN>>
    THEN <<"Noun: ", "{{", "kn-decl-u", "|">> \o w \o <<"|">>
             \o removesuffix(w, <<U_SIGN>>) \o <<"}}">>
    ELSE IF last_char \in FrontVowelSigns
    THEN <<"Noun: ", "{{", "kn-decl-e-i-ai", "|">> \o w \o <<"|">> \o w \o <<"}}">>
    ELSE <<"Noun: ", "{{", "kn-decl-a", "|">> \o w \o <<"}}">>

\* as verb_instruction, with the causative stem taken to be the word without -isu
verb_instruction_mut(w) ==
    LET last_char == last_char_of(w) IN
    IF endswith(w, KOLLU)
    THEN <<"Verb: ", "{{", "kn-conj-kollu", "|">> \o removesuffix(w, KOLLU) \o <<"}}">>
    ELSE IF endswith(w, ISU)
    THEN <<"Verb: ", "{{", "kn-conj-isu", "|">> \o w \o <<"|">>
             \o removesuffix(w, ISU) \o <<"}}">>
    ELSE IF last_char \in FrontVowelSigns
    THEN <<"Verb: ", "{{", "kn-conj-e-i-other", "|">> \o w \o <<"|">> \o w \o <<YA>>
             \o <<"|">> \o w \o <<DA>> \o <<"|">> \o w \o <<"}}">>
    ELSE <<"Verb: ">> \o IRREGULAR_CHECK

verb_instruction(w) ==
    LET last_char == last_char_of(w) IN
    IF endswith(w, KOLLU)
    THEN <<"Verb: ", "{{", "kn-conj-kollu", "|">> \o removesuffix(w, KOLLU) \o <<"}}">>
    ELSE IF endswith(w, ISU)
    THEN <<"Verb: ", "{{", "kn-conj-isu", "|">> \o w \o <<"|">>
             \o removesuffix(w, <<U_SIGN>>) \o <<"}}">>
    ELSE IF last_char \in FrontVowelSigns
    THEN <<"Verb: ", "{{", "kn-conj-e-i-other", "|">> \o w \o <<"|">> \o w \o <<YA>>
             \o <<"|">> \o w \o <<DA>> \o <<"|">> \o w \o <<"}}">>
    ELSE <<"Verb: ">> \o IRREGULAR_CHECK

\* the list `instructions` after the loop over pos_categories
RECURSIVE instructions_of(_, _)
instructions_of(w, pos) ==
    IF pos = <<>> THEN <<>>
    ELSE LET rest == instructions_of(w, Tail(pos)) IN
         IF Head(pos) = "Noun" THEN <<noun_instruction(w)>> \o rest
         ELSE IF Head(pos) = "Verb" THEN <<verb_instruction(w)>> \o rest
         ELSE rest

get_template_logic(w, pos) ==
    LET instructions == instructions_of(w, pos) IN
    IF instructions /= <<>> THEN join(<<" AND ">>, instructions) ELSE NO_TEMPLATES

----------------------------------------------------------------------------
(* get_few_shot_examples *)

\* needle in text
contains(text, needle) ==
    \E i \in 1..(Len(text) + 1) :
        /\ i + Len(needle) - 1 <= Len(text)
        /\ SubSeq(text, i, i + Len(needle) - 1) = needle

\* f"==={pos}==="
section_marker(pos) == <<"===", pos, "===">>

\* the local structural_target; target_word[-1] raises IndexError on the empty word
structural_target_of(primary_pos, target_word) ==
    IF primary_pos = "Verb"
    THEN IF endswith(target_word, ISU) THEN Return(<<"kn-conj-isu">>)
         ELSE IF endswith(target_word, KOLLU) THEN Return(<<"kn-conj-kollu">>)
         ELSE IF target_word = <<>> THEN Raise("IndexError")
         ELSE IF <<target_word[Len(target_word)]>> \in FrontVowelSigns
              THEN Return(<<"kn-conj-e-i-other">>)
         ELSE Return(<<"kn-conj-u">>)
    ELSE IF primary_pos = "Noun"
    THEN LET last_char == last_char_of(target_word) IN
         IF last_char = <<U_SIGN>> THEN Return(<<"kn-decl-u">>)
         ELSE IF last_char \in FrontVowelSigns THEN Return(<<"kn-decl-e-i-ai">>)
         ELSE Return(<<"kn-decl-a">>)
    ELSE Return(<<>>)

\* pos_categories[0] if pos_categories else None
primary_pos_of(pos) == IF pos /= <<>> THEN pos[1] ELSE "None"

in_list(x, list) == \E j \in 1..Len(list) : list[j] = x

\* Pass 1 from item i on: append when the entry qualifies, then test the length
RECURSIVE pass1(_, _, _, _, _, _)
pass1(items, i, matched, primary_pos, structural_target, count) ==
    IF i > Len(items) THEN matched
    ELSE LET wikitext == items[i][2]
             m2 == IF /\ contains(wikitext, section_marker(primary_pos))
                      /\ contains(wikitext, structural_target)
                   THEN Append(matched, items[i]) ELSE matched
         IN IF Len(m2) = count THEN m2
            ELSE pass1(items, i + 1, m2, primary_pos, structural_target, count)

\* Pass 2 from item i on
RECURSIVE pass2(_, _, _, _, _)
pass2(items, i, matched, pos, count) ==
    IF i > Len(items) THEN matched
    ELSE LET wikitext == items[i][2]
             m2 == IF /\ \E j \in 1..Len(pos) : contains(wikitext, section_marker(pos[j]))
                      /\ ~in_list(items[i], matched)
                   THEN Append(matched, items[i]) ELSE matched
         IN IF Len(m2) = count THEN m2
            ELSE pass2(items, i + 1, m2, pos, count)

\* the list matched_entries when the formatting loop starts
matched_entries_of(current_ground_truth, pos, target_word, count) ==
    LET primary_pos == primary_pos_of(pos)
        target == structural_target_of(primary_pos, target_word)
    IN IF target.err /= "" THEN target
       ELSE LET m1 == IF primary_pos /= "None"
                      THEN pass1(current_ground_truth, 1, <<>>, primary_pos, target.val, count)
                      ELSE <<>>
                m2 == IF Len(m1) < count
                      THEN pass2(current_ground_truth, 1, m1, pos, count)
                      ELSE m1
            IN Return(m2)

\* f"\nExample {i + 1}:\nWord: {word}\nOutput:\n{wikitext}\n---\n"
RECURSIVE format_examples(_, _)
format_examples(matched, i) ==
    IF i > Len(matched) THEN <<>>
    ELSE <<"\nExample ", ToString(i), ":\nWord: ">> \o matched[i][1]
            \o <<"\nOutput:\n">> \o matched[i][2] \o <<"\n---\n">>
            \o format_examples(matched, i + 1)

get_few_shot_examples(current_ground_truth, pos, target_word, count) ==
    LET matched == matched_entries_of(current_ground_truth, pos, target_word, count) IN
    IF matched.err /= "" THEN matched ELSE Return(format_examples(matched.val, 1))

----------------------------------------------------------------------------
(* load_ground_truth, save_to_ground_truth *)

\* The file is [exists, text]; text is the JSON document as a sequence of JSON
\* tokens, each [kind, str]: punctuation, or a string literal with its content.
JPunct(k) == [kind |-> k, str |-> <<>>]
JString(s) == [kind |-> "string", str |-> s]

\* json.dump of a dict, given as its items in insertion order
RECURSIVE json_members(_, _)
json_members(items, i) ==
    IF i > Len(items) THEN <<>>
    ELSE (IF i > 1 THEN <<JPunct(",")>> ELSE <<>>)
            \o <<JString(items[i][1]), JPunct(":"), JString(items[i][2])>>
            \o json_members(items, i + 1)

json_dump(items) == <<JPunct("{")>> \o json_members(items, 1) \o <<JPunct("}")>>

\* data[key] = value on a dict: an existing key keeps its place
dict_set(items, key, value) ==
    IF \E i \in 1..Len(items) : items[i][1] = key
    THEN [i \in 1..Len(items) |-> IF items[i][1] = key THEN <<key, value>> ELSE items[i]]
    ELSE Append(items, <<key, value>>)

\* json.load of an object: members are read in order and assigned to the dict
RECURSIVE json_read(_, _, _)
json_read(text, i, data) ==
    IF i > Len(text) \/ text[i].kind = "}" THEN data
    ELSE IF text[i].kind = "," THEN json_read(text, i + 1, data)
    ELSE json_read(text, i + 3, dict_set(data, text[i].str, text[i + 2].str))

json_load(text) == json_read(text, 2, <<>>)

load_ground_truth(f) ==
    IF f.exists /\ Len(f.text) > 0 THEN json_load(f.text) ELSE <<>>

\* as save_to_ground_truth, writing the new entry without loading the file first
save_to_ground_truth_mut(f, w, entry) ==
    [exists |-> TRUE, text |-> json_dump(<<<<w, entry>>>>)]

\* the file after save_to_ground_truth(word, entry)
save_to_ground_truth(f, w, entry) ==
    LET data == dict_set(load_ground_truth(f), w, entry) IN
    [exists |-> TRUE, text |-> json_dump(data)]

has_key(items, key) == \E i \in 1..Len(items) : items[i][1] = key

\* data[key], for a key of the dict
dict_get(items, key) == items[CHOOSE i \in 1..Len(items) : items[i][1] = key][2]

----------------------------------------------------------------------------
(* Inputs of the functions checked on their own *)

SeqsUpTo(S, n) == UNION {[1..k -> S] : k \in 0..n}

StemChars == {KA, SA, I_SIGN, U_SIGN}
Suffixes == {<<>>, KOLLU, ISU, <<SA, U_SIGN>>, <<LLA, U_SIGN>>,
             <<U_SIGN>>, <<I_SIGN>>, <<E_SIGN>>, <<AI_SIGN>>}
Words == {s \o t : s \in SeqsUpTo(StemChars, MaxStem), t \in Suffixes}
PosLists == SeqsUpTo(POS, MaxPos)

\* entry texts: section markers and template invocations
EntryNounA == section_marker("Noun") \o <<"{{", "kn-decl-a", "}}">>
EntryNounU == section_marker("Noun") \o <<"{{", "kn-decl-u", "}}">>
EntryVerbIrreg == section_marker("Verb") \o <<"{{", "kn-conj-u", "-irreg", "}}">>
EntryNounVerb == section_marker("Noun") \o <<"{{", "kn-decl-a", "}}">>
                    \o section_marker("Verb") \o <<"{{", "kn-conj-isu", "}}">>
EntryAdverb == section_marker("Adverb")
Entries == {EntryNounA, EntryNounU, EntryVerbIrreg, EntryNounVerb, EntryAdverb}

StoreKeys == {<<KA>>, <<KA, U_SIGN>>, <<SA, I_SIGN>>}
TargetWords == {<<>>, <<KA>>, <<KA, U_SIGN>>, <<SA, I_SIGN>>, <<KA>> \o ISU, <<SA>> \o KOLLU}

distinct_keys(items) ==
    \A i, j \in 1..Len(items) : items[i][1] = items[j][1] => i = j

\* dicts of at most n items, as item lists in insertion order
Stores(n) == {items \in SeqsUpTo(StoreKeys \X Entries, n) : distinct_keys(items)}

\* the backing resource: missing, of size 0, or the dump of a dict
Files(n) == {[exists |-> FALSE, text |-> <<>>], [exists |-> TRUE, text |-> <<>>]}
            \cup {[exists |-> TRUE, text |-> json_dump(d)] : d \in Stores(n)}

\* st.session_state and the page after the first run of the script, on the empty word
FirstSession == [last_word |-> <<<<>>>>, current_result |-> <<>>, sandbox_results |-> <<>>]
FirstRequest == [crashed |-> FALSE, click |-> "none", ground_truth |-> <<>>, shown |-> <<>>,
                 log |-> <<>>, prompt |-> <<>>, draft_chunks |-> 0,
                 validation_prompt |-> <<>>, raised |-> <<>>, error |-> FALSE,
                 saved |-> <<>>,
                 rendered |-> {"inputs"}]
NoCall == [fn |-> "none"]
NoHistory == [current_result |-> <<>>, sandbox_results |-> <<>>, edited_entry |-> <<>>]

AppIdle ==
    /\ model_choice = "Fast"
    /\ session = FirstSession
    /\ edited_entry = <<>>
    /\ req = FirstRequest
    /\ hist = NoHistory

app_vars == <<model_choice, session, edited_entry, req, hist>>

----------------------------------------------------------------------------
(* SpecClassify: get_template_logic and the matcher's structural target on   *)
(* every word and part-of-speech list of the bounds                          *)

InitClassify ==
    /\ word \in Words
    /\ pos_categories \in PosLists
    /\ file = [exists |-> FALSE, text |-> <<>>]
    /\ call = NoCall
    /\ AppIdle

Classify ==
    /\ call' = [fn |-> "get_template_logic",
                instructions |-> instructions_of(word, pos_categories),
                ret |-> Return(get_template_logic(word, pos_categories))]
    /\ UNCHANGED <<file, word, pos_categories, app_vars>>

StructuralTarget ==
    /\ call' = [fn |-> "structural_target",
                ret |-> structural_target_of(primary_pos_of(pos_categories), word)]
    /\ UNCHANGED <<file, word, pos_categories, app_vars>>

NextClassify == Classify \/ StructuralTarget

SpecClassify == InitClassify /\ [][NextClassify]_vars

----------------------------------------------------------------------------
(* SpecSelect: get_few_shot_examples on every store, list, target and count  *)

InitSelect ==
    /\ word \in TargetWords
    /\ pos_categories \in PosLists
    /\ file \in Files(MaxStore)
    /\ call = NoCall
    /\ AppIdle

Select(count) ==
    /\ call' = [fn |-> "get_few_shot_examples",
                count |-> count,
                matched |-> matched_entries_of(load_ground_truth(file), pos_categories,
                                               word, count),
                ret |-> get_few_shot_examples(load_ground_truth(file), pos_categories,
                                              word, count)]
    /\ UNCHANGED <<file, word, pos_categories, app_vars>>

NextSelect == \E count \in 0..MaxCount : Select(count)

SpecSelect == InitSelect /\ [][NextSelect]_vars

----------------------------------------------------------------------------
(* SpecStore: save_to_ground_truth then load_ground_truth on every file      *)

InitStore ==
    /\ word = <<>>
    /\ pos_categories = <<"Noun">>
    /\ file \in Files(MaxStore)
    /\ call = NoCall
    /\ AppIdle

Put(w, entry) ==
    /\ file' = save_to_ground_truth(file, w, entry)
    /\ call' = [fn |-> "save_to_ground_truth", word |-> w, entry |-> entry,
                before |-> load_ground_truth(file)]
    /\ UNCHANGED <<word, pos_categories, app_vars>>

NextStore == \E w \in StoreKeys, entry \in Entries : Put(w, entry)

SpecStore == InitStore /\ [][NextStore]_vars

----------------------------------------------------------------------------
(* The Streamlit script: one run per user interaction                       *)
(*                                                                         *)
(* Streamlit runs the whole script again after each widget interaction,    *)
(* with the widgets' values and st.session_state kept between runs; a      *)
(* button is True only in the run its click causes.  Each action below is  *)
(* one interaction followed by that run.  req.rendered names the widgets    *)
(* the last run put on the page, which are the ones the user can act on.   *)
(* The translation input is free text that only goes into the prompt; it   *)
(* decides nothing and is left out.  hist records, for current_result,     *)
(* sandbox_results and the text area's value, the word whose generation    *)
(* run produced the text; the script neither reads nor writes it.          *)

\* An optional value: <<>> when absent, <<v>> when present.
Some(v) == <<v>>

\* text.strip(): blanks removed at both ends
RECURSIVE lstrip(_)
lstrip(text) == IF text /= <<>> /\ Head(text) = " " THEN lstrip(Tail(text)) ELSE text

RECURSIVE rstrip(_)
rstrip(text) ==
    IF text /= <<>> /\ text[Len(text)] = " " THEN rstrip(SubSeq(text, 1, Len(text) - 1))
    ELSE text

strip(text) == lstrip(rstrip(text))

\* text.split("</think>")[-1]
after_last_think(text) ==
    LET at == {i \in 1..Len(text) : text[i] = "</think>"} IN
    IF at = {} THEN text
    ELSE SubSeq(text, (CHOOSE i \in at : \A j \in at : j <= i) + 1, Len(text))

\* if "</think>" in content: content = content.split("</think>")[-1].strip()
strip_think(content) ==
    IF contains(content, <<"</think>">>) THEN strip(after_last_think(content)) ELSE content

\* A streamed ollama.chat call: the chunks it yields, then the end of the stream
\* or an exception.  The loop body runs once per chunk, in arrival order.
accumulate(stream) == join(<<>>, stream.chunks)

\* as stream_exhausted, with the exception swallowed inside the loop
stream_exhausted_mut(stream) == TRUE

\* whether the for loop over the stream ends without an exception
stream_exhausted(stream) == ~stream.fails

DEFERRAL == <<"Use {{kn-conj-u-irreg}} for geminates or {{kn-conj-u}} for regular forms.">>

\* word[:-1]
drop_last(w) == SubSeq(w, 1, Len(w) - 1)

\* f"{{{{kn-conj-u|{stem}|{stem}i|{stem}ida}}}}"
fallback_template(w) ==
    LET stem == drop_last(w) IN
    <<"{{", "kn-conj-u", "|">> \o stem \o <<"|">> \o stem \o <<I_SIGN>>
        \o <<"|">> \o stem \o <<I_SIGN, DA>> \o <<"}}">>

is_fast(m) == m = "Fast"

\* template_instruction after the IRREGULAR_CHECK test of the prompt setup
resolve_template(w, pos, m) ==
    LET template_instruction == get_template_logic(w, pos) IN
    IF template_instruction = IRREGULAR_CHECK
    THEN IF is_fast(m) THEN fallback_template(w) ELSE DEFERRAL
    ELSE template_instruction

FastCount == 3
DeepCount == 4
example_count(m) == IF is_fast(m) THEN FastCount ELSE DeepCount

\* The try block of the generate handler.  The result names the steps taken in
\* order, the request assembled, the number of draft chunks accumulated, the
\* collaborator calls that raised, and the text published (if any).
generate(ground_truth, w, pos, m, draft, validate) ==
    LET template_instruction == resolve_template(w, pos, m)
        examples == get_few_shot_examples(ground_truth, pos, w, example_count(m))
        prompt == [examples_block |-> examples.val, word |-> w,
                   template_instruction |-> template_instruction]
        draft_content == strip_think(accumulate(draft))
        final_content == strip_think(accumulate(validate))
        \* the calls in which the collaborator raised, whatever the handler made of it
        raised == (IF draft.fails THEN <<"draft">> ELSE <<>>)
                  \o (IF validate.fails THEN <<"validate">> ELSE <<>>)
    IN IF examples.err /= ""
       THEN [log |-> <<"get_template_logic", "get_few_shot_examples", "error">>,
             prompt |-> <<>>, draft_chunks |-> 0, validation_prompt |-> <<>>,
             raised |-> <<>>, error |-> TRUE, result |-> <<>>]
       ELSE IF ~stream_exhausted(draft)
       THEN [log |-> <<"get_template_logic", "get_few_shot_examples", "draft", "error">>,
             prompt |-> Some(prompt), draft_chunks |-> Len(draft.chunks),
             validation_prompt |-> <<>>, raised |-> raised,
             error |-> TRUE, result |-> <<>>]
       ELSE IF ~stream_exhausted(validate)
       THEN [log |-> <<"get_template_logic", "get_few_shot_examples", "draft",
                       "validate", "error">>,
             prompt |-> Some(prompt), draft_chunks |-> Len(draft.chunks),
             validation_prompt |-> Some([word |-> w, draft |-> draft_content]),
             raised |-> raised, error |-> TRUE, result |-> <<>>]
       ELSE [log |-> <<"get_template_logic", "get_few_shot_examples", "draft",
                       "validate">>,
             prompt |-> Some(prompt), draft_chunks |-> Len(draft.chunks),
             validation_prompt |-> Some([word |-> w, draft |-> draft_content]),
             raised |-> raised, error |-> FALSE, result |-> Some(final_content)]

\* as store_hit, with the lookup skipped
store_hit_mut(ground_truth, w) == FALSE

\* word in ground_truth
store_hit(ground_truth, w) == has_key(ground_truth, w)

\* as invalidate, with last_word updated and the cached texts kept
invalidate_mut(state, w) ==
    IF state.last_word = <<>> \/ state.last_word[1] /= w
    THEN [state EXCEPT !.last_word = Some(w)]
    ELSE state

\* the last_word test: a changed word drops both cached texts
invalidate(state, w) ==
    IF state.last_word = <<>> \/ state.last_word[1] /= w
    THEN [last_word |-> Some(w), current_result |-> <<>>, sandbox_results |-> <<>>]
    ELSE state

----------------------------------------------------------------------------
(* Spec: the interactive session *)

AppWords == {<<>>, <<KA, U_SIGN>>, <<SA, I_SIGN>>}
AppPosLists == {<<"Noun">>, <<"Verb">>, <<"Verb", "Noun">>}
ModelChoices == {"Fast", "Deep"}
\* a chunk of entry text, or the end of the model's reasoning and a line break
ChunkTexts == {<<"wikitext">>, <<"</think>", " ">>}
Streams == [chunks : SeqsUpTo(ChunkTexts, MaxChunks), fails : BOOLEAN]
NoStream == [chunks |-> <<>>, fails |-> FALSE]
EditTexts == {EntryNounA}
AppFiles == {[exists |-> FALSE, text |-> <<>>],
             [exists |-> TRUE, text |-> json_dump(<<<<<<SA, I_SIGN>>, EntryNounU>>>>)]}

\* the generate handler's outcome in a run where the button is not clicked
NoGeneration == [log |-> <<>>, prompt |-> <<>>, draft_chunks |-> 0,
                 validation_prompt |-> <<>>, raised |-> <<>>, error |-> FALSE,
                 result |-> <<>>]

\* "Edit & Verify": the text area, the sentences button and the save button, in
\* a run whose session state is `state` (with history h) when that block starts.
EditAndVerify(w, ed, click, stream, ground_truth, hit, gen, state, h) ==
    LET editing == w /= <<>> /\ state.current_result /= <<>>
        same_widget == /\ "edit" \in req.rendered
                       /\ ed /= <<>>
                       /\ session.current_result = state.current_result
        edited == IF ~editing THEN <<>> ELSE IF same_widget THEN ed ELSE state.current_result
        h_edited == IF ~editing THEN <<>>
                    ELSE IF same_widget THEN hist.edited_entry ELSE h.current_result
        writing == editing /\ click = "sentences"
        written == writing /\ stream_exhausted(stream)
        saving == editing /\ click = "save"
    IN /\ session' = IF written
                     THEN [state EXCEPT
                             !.sandbox_results = Some(strip_think(accumulate(stream)))]
                     ELSE state
       /\ edited_entry' = edited
       /\ file' = IF saving THEN save_to_ground_truth(file, w, edited[1]) ELSE file
       /\ hist' = [h EXCEPT !.edited_entry = h_edited,
                            !.sandbox_results = IF written THEN Some(w) ELSE @]
       /\ req' = [crashed |-> FALSE,
                  click |-> click,
                  ground_truth |-> IF w /= <<>> THEN Some(ground_truth) ELSE <<>>,
                  shown |-> IF hit THEN Some(dict_get(ground_truth, w)) ELSE <<>>,
                  log |-> (IF w /= <<>> THEN <<"load_ground_truth", "word in ground_truth">>
                           ELSE <<>>)
                          \o (IF hit THEN <<"show_stored">> ELSE <<>>)
                          \o gen.log
                          \o (IF writing THEN <<"sentences">> ELSE <<>>)
                          \o (IF writing /\ ~written THEN <<"error">> ELSE <<>>)
                          \o (IF saving THEN <<"save_to_ground_truth">> ELSE <<>>),
                  prompt |-> gen.prompt,
                  draft_chunks |-> gen.draft_chunks,
                  validation_prompt |-> gen.validation_prompt,
                  raised |-> gen.raised,
                  error |-> gen.error \/ (writing /\ ~written),
                  saved |-> IF saving
                            THEN Some([key |-> w, entry |-> edited[1], from |-> h_edited])
                            ELSE <<>>,
                  rendered |-> {"inputs"}
                               \cup (IF w /= <<>> /\ ~hit THEN {"generate"} ELSE {})
                               \cup (IF editing THEN {"edit", "sentences", "save"} ELSE {})]

\* st.session_state['current_result'] = final_content, when the try block got there
Publish(w, ed, click, stream, ground_truth, hit, gen, state, h) ==
    IF gen.result /= <<>>
    THEN EditAndVerify(w, ed, click, stream, ground_truth, hit, gen,
                       [state EXCEPT !.current_result = gen.result],
                       [h EXCEPT !.current_result = Some(w)])
    ELSE EditAndVerify(w, ed, click, stream, ground_truth, hit, gen, state, h)

\* if word: the store is loaded and looked up; the generate button exists, and
\* its handler runs, only when the word is not in it
Lookup(w, pos, m, ed, click, s1, s2, ground_truth, hit, state, h) ==
    Publish(w, ed, click, s1, ground_truth, hit,
            IF w /= <<>> /\ ~hit /\ click = "generate"
            THEN generate(ground_truth, w, pos, m, s1, s2)
            ELSE NoGeneration,
            state, h)

Invalidated(w, pos, m, ed, click, s1, s2, ground_truth, state) ==
    Lookup(w, pos, m, ed, click, s1, s2, ground_truth,
           w /= <<>> /\ store_hit(ground_truth, w),
           state,
           [hist EXCEPT
              !.current_result = IF state.current_result = <<>> THEN <<>> ELSE @,
              !.sandbox_results = IF state.sandbox_results = <<>> THEN <<>> ELSE @])

\* What a run that gets past the sidebar does, given the widget values (w, pos, m,
\* the text area's value ed), the button clicked and what the collaborator streams.
Page(w, pos, m, ed, click, s1, s2) ==
    Invalidated(w, pos, m, ed, click, s1, s2, load_ground_truth(file),
                invalidate(session, w))

\* CURRENT_SYSTEM_PROMPT: DEEP_PROMPT is defined nowhere, so a run with the Deep
\* model raises NameError there and renders nothing below the sidebar.
Crash ==
    /\ req' = [FirstRequest EXCEPT !.crashed = TRUE, !.rendered = {}]
    /\ UNCHANGED <<file, session, edited_entry, hist>>

\* one run of the script
Script(w, pos, m, ed, click, s1, s2) ==
    /\ word' = w
    /\ pos_categories' = pos
    /\ model_choice' = m
    /\ call' = call
    /\ IF is_fast(m) THEN Page(w, pos, m, ed, click, s1, s2) ELSE Crash

EnterWord(w) ==
    /\ "inputs" \in req.rendered
    /\ w /= word
    /\ Script(w, pos_categories, model_choice, edited_entry, "none", NoStream, NoStream)

SelectPos(pos) ==
    /\ "inputs" \in req.rendered
    /\ pos /= pos_categories
    /\ Script(word, pos, model_choice, edited_entry, "none", NoStream, NoStream)

\* After a run that crashed, the framework may have kept or dropped the values
\* of the widgets that run did not render.
ChooseModel(m, keep) ==
    /\ m /= model_choice
    /\ keep \/ req.crashed
    /\ IF keep
       THEN Script(word, pos_categories, m, edited_entry, "none", NoStream, NoStream)
       ELSE Script(<<>>, <<"Noun">>, m, <<>>, "none", NoStream, NoStream)

EditEntry(text) ==
    /\ "edit" \in req.rendered
    /\ edited_entry /= Some(text)
    /\ Script(word, pos_categories, model_choice, Some(text), "none", NoStream, NoStream)

\* The validate stream is drawn only when the draft stream ends normally.
ClickGenerate(draft, validate) ==
    /\ "generate" \in req.rendered
    /\ draft.fails => validate = NoStream
    /\ Script(word, pos_categories, model_choice, edited_entry, "generate", draft, validate)

ClickSentences(stream) ==
    /\ "sentences" \in req.rendered
    /\ Script(word, pos_categories, model_choice, edited_entry, "sentences", stream, NoStream)

ClickSave ==
    /\ "save" \in req.rendered
    /\ Script(word, pos_categories, model_choice, edited_entry, "save", NoStream, NoStream)

Init ==
    /\ file \in AppFiles
    /\ word = <<>>
    /\ pos_categories = <<"Noun">>
    /\ call = NoCall
    /\ AppIdle

Next ==
    \/ \E w \in AppWords : EnterWord(w)
    \/ \E pos \in AppPosLists : SelectPos(pos)
    \/ \E m \in ModelChoices, keep \in BOOLEAN : ChooseModel(m, keep)
    \/ \E text \in EditTexts : EditEntry(text)
    \/ \E draft, validate \in Streams : ClickGenerate(draft, validate)
    \/ \E stream \in Streams : ClickSentences(stream)
    \/ ClickSave

Spec == Init /\ [][Next]_vars

----------------------------------------------------------------------------
(* Properties of the interactive session (Spec) *)

GenerationSteps == {"get_template_logic", "get_few_shot_examples", "draft", "validate"}

\* the store as loaded at the start of the last run holds the current word
WordWasStored == req.ground_truth /= <<>> /\ has_key(req.ground_truth[1], word)

\* C1: classification, exemplar selection and the draft and validate calls happen
\* only in a run whose store, as loaded at its start, lacks the current word; when
\* the word is there the stored entry is shown instead; and the store lookup
\* precedes every such step and every collaborator call of the run.
C1_StoreShortCircuits ==
    /\ (\E i \in 1..Len(req.log) : req.log[i] \in GenerationSteps)
          => req.ground_truth /= <<>> /\ ~has_key(req.ground_truth[1], word)
    /\ WordWasStored
          => /\ req.shown = Some(dict_get(req.ground_truth[1], word))
             /\ \A i \in 1..Len(req.log) : req.log[i] \notin GenerationSteps
    /\ \A i \in 1..Len(req.log) :
          req.log[i] \in GenerationSteps \cup {"sentences"}
             => \E j \in 1..(i - 1) : req.log[j] = "word in ground_truth"

\* a word generated and saved earlier in the session is now served from the store
C1_Witness ==
    /\ WordWasStored
    /\ req.shown /= <<>>
    /\ session.current_result /= <<>>
    /\ req.click = "none"

\* C3: a request assembled for a Verb that classifies as IRREGULAR_CHECK never
\* carries the sentinel in its morphology-template field.
C3_SentinelResolved ==
    (/\ req.prompt /= <<>>
     /\ in_list("Verb", pos_categories)
     /\ contains(get_template_logic(word, pos_categories), IRREGULAR_CHECK))
       => ~contains(req.prompt[1].template_instruction, IRREGULAR_CHECK)

\* C7: when the collaborator raises during the draft or validate call of a run,
\* the run does not crash and reports the error, the file and the session's
\* current result are what they were before the run, and no validate request is
\* built from a draft whose stream raised.
C7_FailureContained ==
    [][(req'.click = "generate" /\ req'.raised /= <<>>)
          => /\ ~req'.crashed
             /\ req'.error
             /\ file' = file
             /\ session'.current_result = session.current_result
             /\ in_list("draft", req'.raised) => req'.validation_prompt = <<>>]_vars

\* the draft stream raised after a chunk was accumulated, over an earlier result
C7_Witness ==
    /\ req.click = "generate"
    /\ in_list("draft", req.raised)
    /\ req.draft_chunks >= 1
    /\ session.current_result /= <<>>

\* C10: a cached result, cached example sentences and the text a save writes
\* all come from a generation run for the word now entered (for a save: the
\* word it is written under).
C10_CacheIsForCurrentWord ==
    /\ session.current_result /= <<>>
          => hist.current_result = Some(word) /\ session.last_word = Some(word)
    /\ session.sandbox_results /= <<>> => hist.sandbox_results = Some(word)
    /\ req.saved /= <<>> => req.saved[1].from = Some(req.saved[1].key)

\* a second word of the session is saved, with the text the user edited
C10_Witness ==
    /\ req.saved /= <<>>
    /\ req.saved[1].entry \in EditTexts
    /\ Len(load_ground_truth(file)) >= 2

----------------------------------------------------------------------------
(* Properties of get_template_logic and the structural target (SpecClassify) *)

requests_directive(p) == p \in {"Noun", "Verb"}

ends_in(w, c) == Len(w) > 0 /\ w[Len(w)] = c
ends_in_front_vowel(w) == ends_in(w, I_SIGN) \/ ends_in(w, E_SIGN) \/ ends_in(w, AI_SIGN)
has_suffix(w, suf) == \E pre \in {SubSeq(w, 1, k) : k \in 0..Len(w)} : w = pre \o suf
without(w, n) == [i \in 1..(Len(w) - n) |-> w[i]]

RECURSIVE params(_)
params(ps) == IF ps = <<>> THEN <<>> ELSE <<"|">> \o Head(ps) \o params(Tail(ps))

directive(label, template, ps) == <<label, "{{", template>> \o params(ps) \o <<"}}">>

\* the first matching rule of the priority table of the part of speech
ExpectedDirective(w, p) ==
    IF p = "Noun"
    THEN CASE ends_in(w, U_SIGN) -> directive("Noun: ", "kn-decl-u", <<w, without(w, 1)>>)
           [] ~ends_in(w, U_SIGN) /\ ends_in_front_vowel(w)
                 -> directive("Noun: ", "kn-decl-e-i-ai", <<w, w>>)
           [] OTHER -> directive("Noun: ", "kn-decl-a", <<w>>)
    ELSE CASE has_suffix(w, KOLLU)
                 -> directive("Verb: ", "kn-conj-kollu", <<without(w, Len(KOLLU))>>)
           [] ~has_suffix(w, KOLLU) /\ has_suffix(w, ISU)
                 -> directive("Verb: ", "kn-conj-isu", <<w, without(w, 1)>>)
           [] ~has_suffix(w, KOLLU) /\ ~has_suffix(w, ISU) /\ ends_in_front_vowel(w)
                 -> directive("Verb: ", "kn-conj-e-i-other",
                              <<w, w \o <<YA>>, w \o <<DA>>, w>>)
           [] OTHER -> <<"Verb: ", "IRREGULAR_CHECK">>

\* C4: on a non-empty word the classifier yields one directive per requested
\* Noun or Verb, in request order, none for the other parts of speech, each the
\* first matching rule of its table; they are joined, never merged.
C4_ClassifyByPriorityTable ==
    (call.fn = "get_template_logic" /\ word /= <<>>)
       => LET requested == SelectSeq(pos_categories, requests_directive) IN
          /\ Len(call.instructions) = Len(requested)
          /\ \A i \in 1..Len(requested) :
                call.instructions[i] = ExpectedDirective(word, requested[i])
          /\ call.ret = Return(IF requested = <<>> THEN NO_TEMPLATES
                               ELSE join(<<" AND ">>, call.instructions))

\* a reflexive verb with a non-empty prefix, requested as Verb and then Noun
C4_Witness ==
    /\ call.fn = "get_template_logic"
    /\ pos_categories = <<"Verb", "Noun">>
    /\ Len(word) > Len(KOLLU)
    /\ endswith(word, KOLLU)
    /\ Len(call.instructions) = 2

\* C2: the classifier rejects the empty word with InvalidInput whenever a Noun
\* or Verb is requested.
C2_EmptyWordRejected ==
    (/\ call.fn = "get_template_logic"
     /\ word = <<>>
     /\ \E i \in 1..Len(pos_categories) : requests_directive(pos_categories[i]))
       => call.ret.err = "InvalidInput"

\* the template class a one-directive instruction names
template_class(instruction) ==
    IF instruction = <<"Verb: ">> \o IRREGULAR_CHECK THEN <<"kn-conj-u">>
    ELSE <<instruction[3]>>

\* C9: for a primary Noun or Verb the matcher's structural target is defined and
\* names the class of the classifier's directive for the same word (kn-conj-u
\* standing for IRREGULAR_CHECK), the empty word included.
C9_TargetAgreesWithClassifier ==
    (call.fn = "structural_target" /\ requests_directive(primary_pos_of(pos_categories)))
       => /\ call.ret.err = ""
          /\ call.ret.val
               = template_class(get_template_logic(word, <<primary_pos_of(pos_categories)>>))

----------------------------------------------------------------------------
(* Properties of get_few_shot_examples (SpecSelect) *)

no_pair_twice(matched) ==
    \A i, j \in 1..Len(matched) : matched[i] = matched[j] => i = j

\* C5: on a non-empty target the matcher selects at most count exemplars and
\* no (word, entry) pair twice.
C5_AtMostCountNoDuplicates ==
    (call.fn = "get_few_shot_examples" /\ word /= <<>>)
       => /\ call.matched.err = ""
          /\ Len(call.matched.val) <= call.count
          /\ no_pair_twice(call.matched.val)

min(a, b) == IF a <= b THEN a ELSE b

\* C6: with count >= 1 the selection is padded from the rest of the store, so
\* it has min(count, size of the store) exemplars and is empty only on an empty
\* store.
C6_PaddedToCount ==
    (/\ call.fn = "get_few_shot_examples"
     /\ word /= <<>>
     /\ pos_categories /= <<>>
     /\ call.count >= 1)
       => /\ call.matched.err = ""
          /\ Len(call.matched.val) = min(call.count, Len(load_ground_truth(file)))

----------------------------------------------------------------------------
(* Properties of the knowledge store (SpecStore) *)

keys_of(items) == {items[i][1] : i \in 1..Len(items)}

\* C8: after save_to_ground_truth(w, e) the store holds exactly e under w, once,
\* and every other word has the entry it had; no word appears or disappears.
C8_PutThenGet ==
    call.fn = "save_to_ground_truth"
       => LET now == load_ground_truth(file) IN
          /\ Cardinality({i \in 1..Len(now) : now[i][1] = call.word}) = 1
          /\ dict_get(now, call.word) = call.entry
          /\ keys_of(now) = keys_of(call.before) \cup {call.word}
          /\ \A k \in keys_of(call.before) \ {call.word} :
                dict_get(now, k) = dict_get(call.before, k)

\* a word already in a store of two words is overwritten with another entry
C8_Witness ==
    /\ call.fn = "save_to_ground_truth"
    /\ Len(call.before) = 2
    /\ has_key(call.before, call.word)
    /\ dict_get(call.before, call.word) /= call.entry

====
